---- MODULE Spec2Model ----
(***************************************************************************)
(* kvMemoize (src/mod.ts): a memoized function over a Deno.Kv store.       *)
(*                                                                         *)
(* A call computes the fingerprint of its arguments (stringifyKey), joins  *)
(* the pending promise registered under it, or starts the async body       *)
(* (store get, maybe fn, maybe store set) and registers its promise; the   *)
(* promise's finally callback removes the registration.                    *)
(*                                                                         *)
(* Atomicity follows the JavaScript run-to-completion rule: one action is  *)
(* one synchronous run of the code, from a call or an await resumption to  *)
(* the next await.  The store, fn and the policy hooks are the             *)
(* environment: fn and the store operations may return any value or fail,  *)
(* and the hooks are pure functions of (result, args) fixed with the       *)
(* options at construction.  The store retains what is written: it changes *)
(* only through the memoized function's own set, and what other actors     *)
(* left in it is part of its initial contents.                             *)
(***************************************************************************)
EXTENDS Integers, Sequences, FiniteSets, TLC

VARIABLES
    options,    \* engine -> the KvMemoizeOptions captured by kvMemoize (l.76)
    cache,      \* engine -> Map<string, Promise<R>> (l.78), fingerprint -> promise id
    promises,   \* every promise created at l.86-114, by id: the state of its async body
                \* and the calls it was returned to
    store       \* the Deno.Kv store (or the custom kv's backing map): key -> value

vars == <<options, cache, promises, store>>

(***************************************************************************)
(* Bounds of the model.                                                    *)
(***************************************************************************)
MaxCalls == 2

\* Calls made by a caller in reaction to the outcome it received
MaxReactions == 1

(***************************************************************************)
(* Key parts (Deno.KvKeyPart) and argument lists.  A number is kept in     *)
(* tenths so that a non-integer is representable: 12 is the number 1.2.    *)
(***************************************************************************)
Num(tenths) == [type |-> "number", v |-> <<tenths>>]
Str(chars) == [type |-> "string", v |-> chars]
Bytes(bytes) == [type |-> "Uint8Array", v |-> bytes]
Bool(b) == [type |-> "boolean", v |-> <<b>>]

ArgLists == { <<Num(10), Num(20)>>, <<Num(20), Num(10)>> }

\* Calls of a variadic function of numbers: memoFn(1.2) and memoFn(1, 2)
KeyArgLists == { <<Num(12)>>, <<Num(10), Num(20)>> }

Engines == {"memoFn"}

\* Two memoized functions made by two kvMemoize calls on the same db and key
TwoEngines == {"memoFn", "memoFn2"}

\* The key K given to kvMemoize (l.74).
Namespace(e) == <<Str(<<"s", "u", "m", "s">>)>>

(***************************************************************************)
(* Results.  null and undefined are the nullish values; r1, r2 stand for   *)
(* two distinct non-nullish results.                                       *)
(***************************************************************************)
Nullish == {"null", "undefined"}
NonNullish == {"r1", "r2"}
Values == Nullish \cup NonNullish

\* `x !== null` in place of `x != null`: undefined passes
NotNullStrict(x) == x # "null"

\* `x != null` (l.91, l.103)
NotNull(x) == x \notin Nullish

\* What fn may resolve to (an implicit return gives undefined)
FnResults == {"undefined", "r1", "r2"}

\* What the store may hold at first: a null set by another actor (test l.162) or
\* a result left by an earlier run
StoredValues == {"null", "r1"}

None == <<>>
Some(n) == <<n>>

(***************************************************************************)
(* A JavaScript Map, and the store, as a function on the keys present.     *)
(***************************************************************************)
EmptyMap == <<>>
MapHas(m, k) == k \in DOMAIN m
MapSet(m, k, x) == [j \in (DOMAIN m) \cup {k} |-> IF j = k THEN x ELSE m[j]]
MapDelete(m, k) == [j \in (DOMAIN m) \ {k} |-> m[j]]

(***************************************************************************)
(* stringifyKey (l.121-125)                                                *)
(***************************************************************************)
DigitStr(d) ==
    CASE d = 0 -> "0" [] d = 1 -> "1" [] d = 2 -> "2" [] d = 3 -> "3"
      [] d = 4 -> "4" [] d = 5 -> "5" [] d = 6 -> "6" [] d = 7 -> "7"
      [] d = 8 -> "8" [] d = 9 -> "9"

RECURSIVE NatStr(_)
NatStr(n) == IF n < 10 THEN DigitStr(n) ELSE NatStr(n \div 10) \o DigitStr(n % 10)

\* JSON.stringify of a number (non-negative, at most one fractional digit)
NumberStr(tenths) ==
    IF tenths % 10 = 0 THEN NatStr(tenths \div 10)
    ELSE NatStr(tenths \div 10) \o "." \o DigitStr(tenths % 10)

\* JSON.stringify of a string: quoted, with quote and backslash escaped
RECURSIVE EscapeChars(_)
EscapeChars(chars) ==
    IF chars = <<>> THEN ""
    ELSE (IF Head(chars) \in {"\"", "\\"} THEN "\\" \o Head(chars) ELSE Head(chars))
         \o EscapeChars(Tail(chars))

\* JSON.stringify of an array of integers (Array.from of a Uint8Array)
RECURSIVE JoinNats(_, _)
JoinNats(ns, sep) ==
    IF ns = <<>> THEN ""
    ELSE IF Len(ns) = 1 THEN NatStr(ns[1])
    ELSE NatStr(ns[1]) \o sep \o JoinNats(Tail(ns), sep)

\* l.123-124: one key part's serialization
JsonStringify(part) ==
    CASE part.type = "number" -> NumberStr(part.v[1])
      [] part.type = "string" -> "\"" \o EscapeChars(part.v) \o "\""
      [] part.type = "Uint8Array" -> "[" \o JoinNats(part.v, ",") \o "]"
      [] part.type = "boolean" -> IF part.v[1] THEN "true" ELSE "false"

\* l.125: join(".")
RECURSIVE stringifyKey(_)
stringifyKey(key) ==
    IF key = <<>> THEN ""
    ELSE IF Len(key) = 1 THEN JsonStringify(key[1])
    ELSE JsonStringify(key[1]) \o "." \o stringifyKey(Tail(key))

\* The key with its arguments put in ascending order
CompositeKeySorted(e, args) ==
    Namespace(e) \o
      (IF Len(args) = 2 /\ args[1].v[1] > args[2].v[1] THEN <<args[2], args[1]>> ELSE args)

\* [...key, ...args] (l.88, l.89, l.106, l.108)
CompositeKey(e, args) == Namespace(e) \o args

StoreKeys == { CompositeKey(e, a) : e \in Engines, a \in ArgLists }

(***************************************************************************)
(* KvMemoizeOptions (l.4-67).  Each hook is absent, a function, or a       *)
(* function that throws.  The options are every combination of the three   *)
(* policies over the store's own get and set, and the custom kv (whose get *)
(* gives undefined for a missing key, test l.324) with no policy or with   *)
(* shouldRecalculate.                                                      *)
(***************************************************************************)
ExpireInKinds == {"absent", "number", "function", "throws"}
HookKinds == {"absent", "function", "throws"}
KvKinds == {"absent", "custom"}

OptionSets ==
    [expireIn : ExpireInKinds, shouldRecalculate : HookKinds,
     shouldCache : HookKinds, kv : KvKinds \ {"custom"}]
    \cup
    [expireIn : {"absent"}, shouldRecalculate : {"absent", "function"},
     shouldCache : {"absent"}, kv : KvKinds \ {"absent"}]

\* The hook functions of the model: recalculate a cached r1 and keep a cached
\* r2; cache a fresh r1 and skip a fresh r2; expire by result.
ShouldRecalculateFn(cachedResult, args) == cachedResult = "r1"
ShouldCacheFn(result, args) == result = "r1"
ExpireInFn(result, args) ==
    CASE result = "r1" -> Some(1000)
      [] result = "r2" -> Some(2000)
      [] OTHER -> None
ExpireInNumber == Some(500)

(***************************************************************************)
(* The async body (l.86-114) of one promise.                               *)
(*   pc: "get"      awaiting the store get (l.87-89)                       *)
(*       "fn"       awaiting fn (l.97)                                     *)
(*       "set"      awaiting the store set (l.105-109)                     *)
(*       "settled"  the body returned or threw; finally callback pending   *)
(*       "done"     the finally callback ran: the returned promise settled *)
(*   failed: the operation (get, fn, set or a hook) that rejected or threw  *)
(*   gets, fnCalls, sets, recalcCalls, expireCalls, cacheCalls: the         *)
(*   invocations made so far, with their arguments                          *)
(*   callers, callees: the arguments of each call the promise was returned  *)
(*   to, and the memoized function that call was made on                    *)
(*   observations: for each caller that has received the outcome, what the  *)
(*   map held under the fingerprint at that moment and what the caller did  *)
(***************************************************************************)
Pending == [status |-> "pending", value |-> "undefined"]
Fulfilled(x) == [status |-> "fulfilled", value |-> x]
Rejected(err) == [status |-> "rejected", value |-> err]

\* l.86-89: the body starts synchronously and issues the store get
NewPromise(e, args) ==
    [ eng |-> e, args |-> args, cacheKey |-> stringifyKey(args),
      callers |-> <<args>>, callees |-> <<e>>, pc |-> "get", outcome |-> Pending, failed |-> "none",
      cachedResult |-> "undefined", result |-> "undefined",
      gets |-> <<CompositeKey(e, args)>>,
      fnCalls |-> <<>>, sets |-> <<>>,
      recalcCalls |-> <<>>, expireCalls |-> <<>>, cacheCalls |-> <<>>,
      observations |-> <<>> ]

\* The body returns x
Return(p, x) == [p EXCEPT !.pc = "settled", !.outcome = Fulfilled(x)]

\* The error an operation rejects with or throws
ErrorOf(op) == op \o "Error"

\* An awaited operation rejects, or a hook throws: nothing in the body catches
\* it, and the body rejects with that error
Throw(p, op) ==
    [p EXCEPT !.pc = "settled", !.failed = op, !.outcome = Rejected(ErrorOf(op))]

\* l.97: fn(...args)
InvokeFn(p) == [p EXCEPT !.pc = "fn", !.fnCalls = Append(@, p.args)]

\* l.87-89: what the get resolves to when the store holds `held` (or nothing)
GetValue(opt, st, key) ==
    IF MapHas(st, key) THEN st[key]
    ELSE IF opt.kv = "custom" THEN "undefined" ELSE "null"

\* l.91-97 without the test of l.91: a nullish cachedResult is a hit too
AfterGetNoNullTest(opt, p, cachedResult) ==
    LET q == [p EXCEPT !.cachedResult = cachedResult] IN
    IF opt.shouldRecalculate # "absent"
    THEN LET r == [q EXCEPT !.recalcCalls = Append(@, cachedResult)] IN
         IF opt.shouldRecalculate = "throws" THEN Throw(r, "shouldRecalculate")
         ELSE IF ~ShouldRecalculateFn(cachedResult, p.args)
              THEN Return(r, cachedResult)
              ELSE InvokeFn(r)
    ELSE Return(q, cachedResult)

\* l.91-97 with shouldRecalculate defaulting to true: an absent hook recalculates
AfterGetDefaultRecalculate(opt, p, cachedResult) ==
    LET q == [p EXCEPT !.cachedResult = cachedResult] IN
    IF NotNull(cachedResult) /\ opt.shouldRecalculate # "absent"
    THEN LET r == [q EXCEPT !.recalcCalls = Append(@, cachedResult)] IN
         IF opt.shouldRecalculate = "throws" THEN Throw(r, "shouldRecalculate")
         ELSE IF ~ShouldRecalculateFn(cachedResult, p.args)
              THEN Return(r, cachedResult)
              ELSE InvokeFn(r)
    ELSE InvokeFn(q)

\* l.91-97: after the get resolved to cachedResult
AfterGet(opt, p, cachedResult) ==
    LET q == [p EXCEPT !.cachedResult = cachedResult] IN
    IF NotNull(cachedResult) /\ opt.shouldRecalculate # "absent"
    THEN LET r == [q EXCEPT !.recalcCalls = Append(@, cachedResult)] IN
         IF opt.shouldRecalculate = "throws" THEN Throw(r, "shouldRecalculate")
         ELSE IF ~ShouldRecalculateFn(cachedResult, p.args)
              THEN Return(r, cachedResult)
              ELSE InvokeFn(r)
    ELSE IF NotNull(cachedResult) THEN Return(q, cachedResult)
    ELSE InvokeFn(q)

\* l.99-101 without the call: an expireIn function is taken for no expiration
ExpireInOfNumberOnly(opt, result, args) ==
    IF opt.expireIn = "number" THEN ExpireInNumber ELSE None

\* l.99-101
ExpireInOf(opt, result, args) ==
    CASE opt.expireIn = "function" -> ExpireInFn(result, args)
      [] opt.expireIn = "number" -> ExpireInNumber
      [] OTHER -> None

\* l.104 without `?? true`: an absent hook does not cache
ShouldCacheDefaultFalse(opt, result, args) ==
    opt.shouldCache # "absent" /\ ShouldCacheFn(result, args)

\* l.104: options?.shouldCache?.(result, ...args) ?? true
ShouldCacheOf(opt, result, args) ==
    IF opt.shouldCache = "absent" THEN TRUE ELSE ShouldCacheFn(result, args)

\* The store set issued under the namespace alone: [...key]
IssueSetNamespaceOnly(p, result, expireIn) ==
    [p EXCEPT !.pc = "set",
              !.sets = Append(@, [key |-> Namespace(p.eng),
                                  value |-> result, expireIn |-> expireIn])]

\* l.105-109: the store set is issued
IssueSet(p, result, expireIn) ==
    [p EXCEPT !.pc = "set",
              !.sets = Append(@, [key |-> CompositeKey(p.eng, p.args),
                                  value |-> result, expireIn |-> expireIn])]

\* l.103-113: after expireIn was computed
AfterExpireIn(opt, p, result) ==
    IF NotNull(result)
    THEN LET q == IF opt.shouldCache = "absent" THEN p
                  ELSE [p EXCEPT !.cacheCalls = Append(@, result)]
         IN IF opt.shouldCache = "throws" THEN Throw(q, "shouldCache")
            ELSE IF ShouldCacheOf(opt, result, p.args)
                 THEN IssueSet(q, result, ExpireInOf(opt, result, p.args))
                 ELSE Return(q, result)
    ELSE Return(p, result)

\* l.97-113 with the call of expireIn guarded: when it throws, no expiration
AfterFnCatchesExpireIn(opt, p, result) ==
    LET q == [p EXCEPT !.result = result] IN
    IF opt.expireIn \in {"function", "throws"}
    THEN AfterExpireIn(opt, [q EXCEPT !.expireCalls = Append(@, result)], result)
    ELSE AfterExpireIn(opt, q, result)

\* l.97-113: after fn resolved to result
AfterFn(opt, p, result) ==
    LET q == [p EXCEPT !.result = result] IN
    IF opt.expireIn \in {"function", "throws"}
    THEN LET r == [q EXCEPT !.expireCalls = Append(@, result)] IN
         IF opt.expireIn = "throws" THEN Throw(r, "expireIn")
         ELSE AfterExpireIn(opt, r, result)
    ELSE AfterExpireIn(opt, q, result)

\* What the store may hold when the memoized function is created: nothing, or
\* one entry, for the arguments (1, 2).
StoredArgs == <<Num(10), Num(20)>>
InitialStores ==
    {EmptyMap} \cup
    { MapSet(EmptyMap, CompositeKey(e, StoredArgs), x) :
        e \in Engines, x \in StoredValues }

(***************************************************************************)
(* Initial state: kvMemoize(db, key, fn, options) returned (l.72-80).      *)
(***************************************************************************)
Init ==
    /\ options \in [Engines -> OptionSets]
    /\ cache = [e \in Engines |-> EmptyMap]
    /\ promises = <<>>
    /\ store \in InitialStores

(***************************************************************************)
(* Actions                                                                 *)
(***************************************************************************)

\* The calls made so far: every promise was returned to each of its callers
RECURSIVE NumCalls(_)
NumCalls(ps) == IF ps = <<>> THEN 0 ELSE Len(Head(ps).callers) + NumCalls(Tail(ps))

\* Call without the lookup of l.82-84: every call starts its own body
CallAlwaysStarts(e, args) ==
    /\ NumCalls(promises) < MaxCalls
    /\ promises' = Append(promises, NewPromise(e, args))
    /\ cache' = [cache EXCEPT ![e] = MapSet(@, stringifyKey(args), Len(promises) + 1)]
    /\ UNCHANGED <<options, store>>

\* Call with the Map of l.78 at module level: one map for every memoized function
CallSharedMap(e, args) ==
    /\ NumCalls(promises) < MaxCalls
    /\ LET cacheKey == stringifyKey(args)
           shared == "memoFn"
       IN
       IF MapHas(cache[shared], cacheKey)
       THEN /\ promises' = [promises EXCEPT
                   ![cache[shared][cacheKey]].callers = Append(@, args),
                   ![cache[shared][cacheKey]].callees = Append(@, e)]
            /\ UNCHANGED cache
       ELSE /\ promises' = Append(promises, NewPromise(e, args))
            /\ cache' = [cache EXCEPT ![shared] = MapSet(@, cacheKey, Len(promises) + 1)]
    /\ UNCHANGED <<options, store>>

\* l.80-84, l.86-89, l.116-117: a call of the memoized function
Call(e, args) ==
    /\ NumCalls(promises) < MaxCalls
    /\ LET cacheKey == stringifyKey(args) IN
       IF MapHas(cache[e], cacheKey)
       THEN /\ promises' = [promises EXCEPT ![cache[e][cacheKey]].callers = Append(@, args),
                                            ![cache[e][cacheKey]].callees = Append(@, e)]
            /\ UNCHANGED cache
       ELSE /\ promises' = Append(promises, NewPromise(e, args))
            /\ cache' = [cache EXCEPT ![e] = MapSet(@, cacheKey, Len(promises) + 1)]
    /\ UNCHANGED <<options, store>>

\* l.87-97: the store get resolves and the body runs to its next await
GetResolves(id) ==
    /\ promises[id].pc = "get"
    /\ LET p == promises[id]
           opt == options[p.eng]
       IN promises' = [promises EXCEPT
              ![id] = AfterGet(opt, p, GetValue(opt, store, CompositeKey(p.eng, p.args)))]
    /\ UNCHANGED <<options, cache, store>>

\* A rejected get taken for a miss: the body goes on to fn
GetRejectsAsMiss(id) ==
    /\ promises[id].pc = "get"
    /\ promises' = [promises EXCEPT ![id] = InvokeFn([@ EXCEPT !.failed = "get"])]
    /\ UNCHANGED <<options, cache, store>>

\* l.87-89: the store get rejects
GetRejects(id) ==
    /\ promises[id].pc = "get"
    /\ promises' = [promises EXCEPT ![id] = Throw(@, "get")]
    /\ UNCHANGED <<options, cache, store>>

\* l.97-113: fn resolves and the body runs to its next await or its return
FnResolves(id, result) ==
    /\ promises[id].pc = "fn"
    /\ promises' = [promises EXCEPT
           ![id] = AfterFn(options[promises[id].eng], @, result)]
    /\ UNCHANGED <<options, cache, store>>

\* fn rejects and the body invalidates the stored value
FnRejectsInvalidates(id) ==
    /\ promises[id].pc = "fn"
    /\ promises' = [promises EXCEPT ![id] = Throw(@, "fn")]
    /\ store' = MapDelete(store, CompositeKey(promises[id].eng, promises[id].args))
    /\ UNCHANGED <<options, cache>>

\* fn retried once after a rejection
FnRejectsRetried(id) ==
    /\ promises[id].pc = "fn"
    /\ promises' = [promises EXCEPT
           ![id] = IF Len(@.fnCalls) < 2 THEN InvokeFn(@) ELSE Throw(@, "fn")]
    /\ UNCHANGED <<options, cache, store>>

\* l.97: fn rejects
FnRejects(id) ==
    /\ promises[id].pc = "fn"
    /\ promises' = [promises EXCEPT ![id] = Throw(@, "fn")]
    /\ UNCHANGED <<options, cache, store>>

\* l.105-113: the store set resolves, the value is stored, the body returns result
SetResolves(id) ==
    /\ promises[id].pc = "set"
    /\ LET p == promises[id]
           s == p.sets[Len(p.sets)]
       IN /\ store' = MapSet(store, s.key, s.value)
          /\ promises' = [promises EXCEPT ![id] = Return(@, p.result)]
    /\ UNCHANGED <<options, cache>>

\* A rejected set caught and dropped: the body returns result
SetRejectsSwallowed(id) ==
    /\ promises[id].pc = "set"
    /\ promises' = [promises EXCEPT
           ![id] = Return([@ EXCEPT !.failed = "set"], promises[id].result)]
    /\ UNCHANGED <<options, cache, store>>

\* l.105-109: the store set rejects
SetRejects(id) ==
    /\ promises[id].pc = "set"
    /\ promises' = [promises EXCEPT ![id] = Throw(@, "set")]
    /\ UNCHANGED <<options, cache, store>>

\* then in place of finally: the entry is deleted on fulfilment only
FinallyOnFulfilment(id) ==
    /\ promises[id].pc = "settled"
    /\ cache' = [cache EXCEPT ![promises[id].eng] =
                    IF promises[id].outcome.status = "fulfilled"
                    THEN MapDelete(@, promises[id].cacheKey) ELSE @]
    /\ promises' = [promises EXCEPT ![id].pc = "done"]
    /\ UNCHANGED <<options, store>>

\* Finally without the cache.delete of l.114
FinallyKeepsEntry(id) ==
    /\ promises[id].pc = "settled"
    /\ promises' = [promises EXCEPT ![id].pc = "done"]
    /\ UNCHANGED <<options, cache, store>>

\* Finally with cache.clear() in place of cache.delete(cacheKey)
FinallyClearsMap(id) ==
    /\ promises[id].pc = "settled"
    /\ cache' = [cache EXCEPT ![promises[id].eng] = EmptyMap]
    /\ promises' = [promises EXCEPT ![id].pc = "done"]
    /\ UNCHANGED <<options, store>>

\* l.114: .finally(() => cache.delete(cacheKey)), then the returned promise settles
Finally(id) ==
    /\ promises[id].pc = "settled"
    /\ cache' = [cache EXCEPT ![promises[id].eng] = MapDelete(@, promises[id].cacheKey)]
    /\ promises' = [promises EXCEPT ![id].pc = "done"]
    /\ UNCHANGED <<options, store>>

\* The reactions made so far
Reacted(p) ==
    Cardinality({ i \in DOMAIN p.observations : p.observations[i].reaction # "none" })

RECURSIVE NumReactions(_)
NumReactions(ps) == IF ps = <<>> THEN 0 ELSE Reacted(Head(ps)) + NumReactions(Tail(ps))

\* What the caller's continuation finds in the map, and what it does: nothing,
\* or the same call again (l.80-84, l.116: it joins the promise registered under
\* the fingerprint, or starts one)
Observation(p, react) ==
    LET seen == IF MapHas(cache[p.eng], p.cacheKey)
                THEN Some(cache[p.eng][p.cacheKey]) ELSE None
    IN [ seen |-> seen,
         reaction |-> IF ~react THEN "none"
                      ELSE IF seen = None THEN "started" ELSE "joined",
         promise |-> IF ~react THEN 0
                     ELSE IF seen = None THEN Len(promises) + 1 ELSE seen[1] ]

\* The continuation runs as soon as the async body has settled, before the
\* finally callback: the callers were given the body's promise
ObserveOnBodySettlement(id, react) ==
    LET p == promises[id]
        obs == Observation(p, react)
        observed == [promises EXCEPT ![id].observations = Append(@, obs)]
        args == p.callers[Len(p.observations) + 1]
    IN /\ p.pc \in {"settled", "done"}
       /\ Len(p.observations) < Len(p.callers)
       /\ react => NumReactions(promises) < MaxReactions
       /\ promises' =
             CASE obs.reaction = "none" -> observed
               [] obs.reaction = "joined" ->
                    [observed EXCEPT ![obs.promise].callers = Append(@, args),
                                     ![obs.promise].callees = Append(@, p.eng)]
               [] obs.reaction = "started" -> Append(observed, NewPromise(p.eng, args))
       /\ cache' = IF obs.reaction = "started"
                   THEN [cache EXCEPT ![p.eng] = MapSet(@, p.cacheKey, obs.promise)]
                   ELSE cache
       /\ UNCHANGED <<options, store>>

\* l.117 and the caller's await: the promise returned by the call is the one
\* made by finally (l.114); once it has settled, the continuation of each
\* caller runs, in the order of the calls, and may call the memoized function
\* again with the same arguments (test l.338-347)
Observe(id, react) ==
    LET p == promises[id]
        obs == Observation(p, react)
        observed == [promises EXCEPT ![id].observations = Append(@, obs)]
        args == p.callers[Len(p.observations) + 1]
    IN /\ p.pc = "done"
       /\ Len(p.observations) < Len(p.callers)
       /\ react => NumReactions(promises) < MaxReactions
       /\ promises' =
             CASE obs.reaction = "none" -> observed
               [] obs.reaction = "joined" ->
                    [observed EXCEPT ![obs.promise].callers = Append(@, args),
                                     ![obs.promise].callees = Append(@, p.eng)]
               [] obs.reaction = "started" -> Append(observed, NewPromise(p.eng, args))
       /\ cache' = IF obs.reaction = "started"
                   THEN [cache EXCEPT ![p.eng] = MapSet(@, p.cacheKey, obs.promise)]
                   ELSE cache
       /\ UNCHANGED <<options, store>>

Next ==
    \/ \E e \in Engines, args \in ArgLists : Call(e, args)
    \/ \E id \in DOMAIN promises : GetResolves(id)
    \/ \E id \in DOMAIN promises : GetRejects(id)
    \/ \E id \in DOMAIN promises, result \in FnResults : FnResolves(id, result)
    \/ \E id \in DOMAIN promises : FnRejects(id)
    \/ \E id \in DOMAIN promises : SetResolves(id)
    \/ \E id \in DOMAIN promises : SetRejects(id)
    \/ \E id \in DOMAIN promises : Finally(id)

Spec == Init /\ [][Next]_vars

(***************************************************************************)
(* The memoized function in an environment where every store get, every    *)
(* fn invocation and every store set eventually settles, and where the     *)
(* microtask of the finally callback of a settled body eventually runs.    *)
(***************************************************************************)
GetSettles(id) ==
    id \in DOMAIN promises /\ (GetResolves(id) \/ GetRejects(id))

FnSettles(id) ==
    id \in DOMAIN promises /\ ((\E result \in FnResults : FnResolves(id, result)) \/ FnRejects(id))

SetSettles(id) ==
    id \in DOMAIN promises /\ (SetResolves(id) \/ SetRejects(id))

FinallyRuns(id) ==
    id \in DOMAIN promises /\ Finally(id)

FairOptionSets ==
    [expireIn : {"absent", "throws"}, shouldRecalculate : {"absent", "function"},
     shouldCache : {"absent"}, kv : {"absent"}]

InitFair ==
    /\ options \in [Engines -> FairOptionSets]
    /\ cache = [e \in Engines |-> EmptyMap]
    /\ promises = <<>>
    /\ store \in InitialStores

FairSpec ==
    /\ InitFair /\ [][Next]_vars
    /\ \A id \in 1..MaxCalls :
          /\ WF_vars(GetSettles(id))
          /\ WF_vars(FnSettles(id))
          /\ WF_vars(SetSettles(id))
          /\ WF_vars(FinallyRuns(id))

(***************************************************************************)
(* The memoized function called with the argument lists of KeyArgLists.    *)
(***************************************************************************)
NextKeys ==
    \/ \E e \in Engines, args \in KeyArgLists : Call(e, args)
    \/ \E id \in DOMAIN promises : GetResolves(id)
    \/ \E id \in DOMAIN promises : GetRejects(id)
    \/ \E id \in DOMAIN promises, result \in FnResults : FnResolves(id, result)
    \/ \E id \in DOMAIN promises : FnRejects(id)
    \/ \E id \in DOMAIN promises : SetResolves(id)
    \/ \E id \in DOMAIN promises : SetRejects(id)
    \/ \E id \in DOMAIN promises : Finally(id)

SpecKeys == Init /\ [][NextKeys]_vars

(***************************************************************************)
(* Two memoized functions over one store, each with its own options and    *)
(* its own Map (l.78 is inside kvMemoize).                                 *)
(***************************************************************************)
TwoOptionSets ==
    [expireIn : {"absent"}, shouldRecalculate : {"absent", "function"},
     shouldCache : {"absent"}, kv : {"absent"}]

InitTwo ==
    /\ options \in [TwoEngines -> TwoOptionSets]
    /\ cache = [e \in TwoEngines |-> EmptyMap]
    /\ promises = <<>>
    /\ store \in InitialStores

NextTwo ==
    \/ \E e \in TwoEngines, args \in ArgLists : Call(e, args)
    \/ \E id \in DOMAIN promises : GetResolves(id)
    \/ \E id \in DOMAIN promises : GetRejects(id)
    \/ \E id \in DOMAIN promises, result \in FnResults : FnResolves(id, result)
    \/ \E id \in DOMAIN promises : FnRejects(id)
    \/ \E id \in DOMAIN promises : SetResolves(id)
    \/ \E id \in DOMAIN promises : SetRejects(id)
    \/ \E id \in DOMAIN promises : Finally(id)

SpecTwo == InitTwo /\ [][NextTwo]_vars

(***************************************************************************)
(* The memoized function with its callers: each caller receives the        *)
(* outcome of its promise and may react by making the same call again.     *)
(***************************************************************************)
ReactOptionSets ==
    [expireIn : {"absent"}, shouldRecalculate : {"absent"},
     shouldCache : {"absent"}, kv : {"absent"}]

InitReact ==
    /\ options \in [Engines -> ReactOptionSets]
    /\ cache = [e \in Engines |-> EmptyMap]
    /\ promises = <<>>
    /\ store \in InitialStores

NextReact ==
    \/ \E e \in Engines : Call(e, StoredArgs)
    \/ \E id \in DOMAIN promises : GetResolves(id)
    \/ \E id \in DOMAIN promises : GetRejects(id)
    \/ \E id \in DOMAIN promises : FnResolves(id, "r1")
    \/ \E id \in DOMAIN promises : FnRejects(id)
    \/ \E id \in DOMAIN promises : SetResolves(id)
    \/ \E id \in DOMAIN promises : SetRejects(id)
    \/ \E id \in DOMAIN promises : Finally(id)
    \/ \E id \in DOMAIN promises, react \in BOOLEAN : Observe(id, react)

SpecReact == InitReact /\ [][NextReact]_vars

(***************************************************************************)
(* Vocabulary of the properties                                            *)
(***************************************************************************)
Ids == DOMAIN promises

\* The get resolved: the body read cachedResult
GotValue(p) == p.pc # "get" /\ p.failed # "get"

\* fn was invoked and resolved: the body read result
FnResolved(p) ==
    /\ p.fnCalls # <<>>
    /\ p.pc \in {"set", "settled", "done"}
    /\ p.failed # "fn"

\* The body returned or threw
Settled(p) == p.pc \in {"settled", "done"}

\* The promise is the one registered in its engine's map
Registered(id) ==
    /\ MapHas(cache[promises[id].eng], promises[id].cacheKey)
    /\ cache[promises[id].eng][promises[id].cacheKey] = id

\* Two promises of calls of the same memoized function with the same arguments
SameCall(p, q) == p.eng = q.eng /\ p.args = q.args

\* id has an earlier promise of the same call, and prev is the latest one
IsPrev(prev, id) ==
    /\ prev \in Ids /\ id \in Ids /\ prev < id
    /\ SameCall(promises[prev], promises[id])
    /\ \A k \in Ids : (prev < k /\ k < id) => ~SameCall(promises[k], promises[id])

\* The cached value read is a miss, or shouldRecalculate asks for a new result
WantsFn(p) ==
    \/ p.cachedResult \in Nullish
    \/ /\ options[p.eng].shouldRecalculate = "function"
       /\ ShouldRecalculateFn(p.cachedResult, p.args)

\* shouldCache is absent or returns true for the fresh result
CacheAllows(p) ==
    \/ options[p.eng].shouldCache = "absent"
    \/ /\ options[p.eng].shouldCache = "function"
       /\ ShouldCacheFn(p.result, p.args)

(***************************************************************************)
(* C1 (as amended).  Calls with identical arguments issued before the      *)
(* promise of the first settles all share that promise: no second promise  *)
(* of the same call exists until the first is done.  For every promise the *)
(* store get is invoked exactly once, fn at most once (exactly once when   *)
(* the get resolved to a nullish value or shouldRecalculate returned true) *)
(* and the store set at most once (exactly once when fn resolved to a      *)
(* non-nullish result, expireIn did not throw and shouldCache allows it).  *)
(* All callers hold the one promise, hence observe the one outcome.        *)
(***************************************************************************)
C1_CoalescedOnce ==
    /\ \A id \in Ids :
          LET p == promises[id] IN
          /\ Len(p.gets) = 1
          /\ Len(p.fnCalls) <= 1
          /\ Len(p.sets) <= 1
          /\ GotValue(p) => (Len(p.fnCalls) = 1 <=> WantsFn(p))
          /\ Len(p.sets) = 1 <=>
                (FnResolved(p) /\ p.result \notin Nullish
                 /\ options[p.eng].expireIn # "throws" /\ CacheAllows(p))
          /\ \A i \in DOMAIN p.callers : p.callers[i] = p.args
    /\ \A i, j \in Ids :
          (i < j /\ SameCall(promises[i], promises[j])) => promises[i].pc = "done"

\* Two callers shared one promise that ran get, fn and set once each
C1_Witness ==
    \E id \in Ids :
        /\ Len(promises[id].callers) >= 2
        /\ promises[id].pc = "done"
        /\ Len(promises[id].gets) = 1
        /\ Len(promises[id].fnCalls) = 1
        /\ Len(promises[id].sets) = 1
        /\ promises[id].outcome = Fulfilled("r1")

\* C1 as stated, on the promises that fulfil: for N >= 2 coalesced calls fn is
\* invoked exactly once, the get exactly once, the set at most once and exactly
\* once when the result is non-nullish and shouldCache allows it.
C1_Original ==
    \A id \in Ids :
        LET p == promises[id] IN
        (Len(p.callers) >= 2 /\ p.pc = "done" /\ p.outcome.status = "fulfilled") =>
            /\ Len(p.fnCalls) = 1
            /\ Len(p.gets) = 1
            /\ Len(p.sets) <= 1
            /\ (FnResolved(p) /\ p.result \notin Nullish /\ CacheAllows(p))
                  => Len(p.sets) = 1

(***************************************************************************)
(* C2.  For every engine and fingerprint at most one promise is pending    *)
(* (not done); a pending promise is the one registered in the map under    *)
(* its fingerprint, from its creation until it is done, and the map holds  *)
(* no promise that is done.                                                *)
(***************************************************************************)
C2_OnePendingPerFingerprint ==
    /\ \A id \in Ids : promises[id].pc # "done" <=> Registered(id)
    /\ \A i, j \in Ids :
          (i # j /\ promises[i].eng = promises[j].eng
                 /\ promises[i].cacheKey = promises[j].cacheKey)
            => (promises[i].pc = "done" \/ promises[j].pc = "done")
    /\ \A e \in Engines : \A k \in DOMAIN cache[e] :
          cache[e][k] \in Ids /\ promises[cache[e][k]].cacheKey = k

\* A second promise for a fingerprint is pending after the first was done
C2_Witness ==
    \E i, j \in Ids :
        /\ i < j
        /\ promises[i].cacheKey = promises[j].cacheKey
        /\ promises[i].pc = "done"
        /\ promises[j].pc = "fn"
        /\ Registered(j)

(***************************************************************************)
(* C3.  When fn rejects, the promise rejects with that error for all its   *)
(* callers and issues no store set; once it is done its entry is gone      *)
(* from the map, and the next promise of the same call, once its get       *)
(* resolved, invokes fn again.                                             *)
(***************************************************************************)
C3_FnFailureNotCached ==
    \A id \in Ids :
        LET p == promises[id] IN
        p.failed = "fn" =>
            /\ p.outcome = Rejected(ErrorOf("fn"))
            /\ p.sets = <<>>
            /\ p.pc = "done" => ~Registered(id)
            /\ \A next \in Ids :
                  (IsPrev(id, next) /\ GotValue(promises[next]))
                    => Len(promises[next].fnCalls) = 1

\* fn rejected, and the next call with the same arguments invoked fn again
C3_Witness ==
    \E id, next \in Ids :
        /\ IsPrev(id, next)
        /\ promises[id].failed = "fn"
        /\ promises[id].outcome = Rejected("fnError")
        /\ Len(promises[next].fnCalls) = 1

(***************************************************************************)
(* C4.  When the store set rejects, after fn resolved to a non-nullish     *)
(* result, the promise rejects with the set's error: its callers never     *)
(* receive the result; once it is done its entry is gone from the map and  *)
(* the next call of the same arguments runs a promise of its own.          *)
(***************************************************************************)
C4_SetFailureLosesResult ==
    \A id \in Ids :
        LET p == promises[id] IN
        p.failed = "set" =>
            /\ p.outcome = Rejected(ErrorOf("set"))
            /\ p.result \notin Nullish
            /\ Len(p.fnCalls) = 1 /\ Len(p.sets) = 1
            /\ p.pc = "done" => ~Registered(id)
            /\ \A next \in Ids :
                  IsPrev(id, next) => (p.pc = "done" /\ Len(promises[next].gets) = 1)

\* The set rejected after fn resolved to r1, and a later call started anew
C4_Witness ==
    \E id, next \in Ids :
        /\ IsPrev(id, next)
        /\ promises[id].failed = "set"
        /\ promises[id].result = "r1"
        /\ promises[id].outcome.status = "rejected"
        /\ promises[next].pc = "get"

(***************************************************************************)
(* C5.  When the store get rejects, the promise rejects with that error:   *)
(* fn is not invoked, no hook is consulted and no store set is issued;     *)
(* once it is done its entry is gone from the map and the next call of the *)
(* same arguments issues a store get of its own.                           *)
(***************************************************************************)
C5_GetFailureAborts ==
    \A id \in Ids :
        LET p == promises[id] IN
        p.failed = "get" =>
            /\ p.outcome = Rejected(ErrorOf("get"))
            /\ p.fnCalls = <<>>
            /\ p.recalcCalls = <<>> /\ p.expireCalls = <<>> /\ p.cacheCalls = <<>>
            /\ p.sets = <<>>
            /\ p.pc = "done" => ~Registered(id)
            /\ \A next \in Ids :
                  IsPrev(id, next) =>
                    promises[next].gets = <<CompositeKey(p.eng, p.args)>>

\* The get rejected, and a later call with the same arguments issued its own get
C5_Witness ==
    \E id, next \in Ids :
        /\ IsPrev(id, next)
        /\ promises[id].failed = "get"
        /\ promises[id].outcome = Rejected("getError")
        /\ Len(promises[next].gets) = 1

C7_NullishCachedIsMiss ==
    \A id \in Ids :
        LET p == promises[id] IN
        (GotValue(p) /\ p.cachedResult \in Nullish) =>
            /\ p.recalcCalls = <<>>
            /\ Len(p.fnCalls) = 1
            /\ (FnResolved(p) /\ p.result \notin Nullish /\ p.failed # "expireIn"
                   /\ CacheAllows(p))
                  => p.sets = <<[key |-> CompositeKey(p.eng, p.args), value |-> p.result,
                                 expireIn |-> ExpireInOf(options[p.eng], p.result, p.args)]>>
            /\ (Settled(p) /\ p.failed = "none" /\ p.sets # <<>>) =>
                  /\ p.outcome = Fulfilled(p.result)
                  /\ \A next \in Ids :
                        (IsPrev(id, next) /\ GotValue(promises[next]))
                          => promises[next].cachedResult = p.result

\* A stored null was read, fn's result r1 replaced it, and the next call read r1
C7_Witness ==
    \E id, next \in Ids :
        /\ IsPrev(id, next)
        /\ options[promises[id].eng].kv = "custom"
        /\ options[promises[id].eng].shouldRecalculate = "function"
        /\ promises[id].cachedResult = "null"
        /\ GotValue(promises[id])
        /\ promises[id].outcome = Fulfilled("r1")
        /\ GotValue(promises[next])
        /\ promises[next].cachedResult = "r1"

(***************************************************************************)
(* C8.  When the get resolves to a non-nullish value, fn is invoked if and *)
(* only if shouldRecalculate is supplied and returns true for that value   *)
(* and the arguments; when it is absent or returns false the promise       *)
(* fulfils with exactly the cached value, fn is not invoked and no store   *)
(* set is issued.                                                          *)
(***************************************************************************)
C8_HitUnlessRecalculate ==
    \A id \in Ids :
        LET p == promises[id]
            hook == options[p.eng].shouldRecalculate
        IN
        (GotValue(p) /\ p.cachedResult \notin Nullish) =>
            /\ Len(p.fnCalls) = 1 <=>
                  (hook = "function" /\ ShouldRecalculateFn(p.cachedResult, p.args))
            /\ (hook = "absent"
                  \/ (hook = "function" /\ ~ShouldRecalculateFn(p.cachedResult, p.args)))
                 => /\ Settled(p)
                    /\ p.outcome = Fulfilled(p.cachedResult)
                    /\ p.fnCalls = <<>>
                    /\ p.sets = <<>>

\* One promise recalculated a cached r1, and the next was fulfilled with the
\* cached r2 without invoking fn
C8_Witness ==
    \E id, next \in Ids :
        /\ IsPrev(id, next)
        /\ promises[id].cachedResult = "r1"
        /\ promises[id].recalcCalls = <<"r1">>
        /\ Len(promises[id].fnCalls) = 1
        /\ promises[next].cachedResult = "r2"
        /\ promises[next].recalcCalls = <<"r2">>
        /\ promises[next].fnCalls = <<>>
        /\ promises[next].outcome = Fulfilled("r2")

(***************************************************************************)
(* C9.  For a non-nullish fresh result (expireIn not having thrown): when  *)
(* shouldCache returns false no store set is issued, the promise fulfils   *)
(* with the result and the next promise of the same call, once its get     *)
(* resolved, invokes fn again; when shouldCache is absent the store set is *)
(* issued with the result.                                                 *)
(***************************************************************************)
C9_ShouldCacheDecidesWrite ==
    \A id \in Ids :
        LET p == promises[id]
            hook == options[p.eng].shouldCache
        IN
        (FnResolved(p) /\ p.result \notin Nullish /\ p.failed # "expireIn") =>
            /\ (hook = "function" /\ ~ShouldCacheFn(p.result, p.args)) =>
                  /\ p.cacheCalls = <<p.result>>
                  /\ p.sets = <<>>
                  /\ p.outcome = Fulfilled(p.result)
                  /\ \A next \in Ids :
                        (IsPrev(id, next) /\ GotValue(promises[next]))
                          => Len(promises[next].fnCalls) = 1
            /\ hook = "absent" =>
                  /\ Len(p.sets) = 1
                  /\ p.sets[1].key = CompositeKey(p.eng, p.args)
                  /\ p.sets[1].value = p.result

\* shouldCache returned false for r2: r2 was returned, not written, and the
\* next call with the same arguments invoked fn again
C9_Witness ==
    \E id, next \in Ids :
        /\ IsPrev(id, next)
        /\ promises[id].cacheCalls = <<"r2">>
        /\ promises[id].sets = <<>>
        /\ promises[id].outcome = Fulfilled("r2")
        /\ Len(promises[next].fnCalls) = 1

(***************************************************************************)
(* C10.  With default policies (no hook, no expireIn): once a promise has  *)
(* fulfilled with a non-nullish value, every later promise of the same     *)
(* call, once its get resolved, fulfils with that value and does not       *)
(* invoke fn, so that for one argument list at most one promise ever       *)
(* obtains a non-nullish result from fn and writes it; and a non-nullish   *)
(* value is read only under the arguments it was stored for, so (1, 2) and *)
(* (2, 1) never serve each other.                                          *)
(***************************************************************************)
DefaultPolicies(e) ==
    /\ options[e].shouldRecalculate = "absent"
    /\ options[e].shouldCache = "absent"
    /\ options[e].expireIn = "absent"

C10_ComputedOncePerArguments ==
    \A id \in Ids :
        LET p == promises[id] IN
        DefaultPolicies(p.eng) =>
            /\ (Settled(p) /\ p.outcome.status = "fulfilled"
                   /\ p.outcome.value \notin Nullish) =>
                  \A later \in Ids :
                      (id < later /\ SameCall(p, promises[later])
                         /\ GotValue(promises[later]))
                        => /\ promises[later].fnCalls = <<>>
                           /\ promises[later].outcome = p.outcome
            /\ (GotValue(p) /\ p.cachedResult \notin Nullish) =>
                  \/ p.args = StoredArgs
                  \/ \E w \in Ids :
                        /\ w < id /\ SameCall(promises[w], p)
                        /\ promises[w].sets # <<>>
                        /\ promises[w].sets[1].value = p.cachedResult
            /\ \A other \in Ids :
                  promises[other].args # p.args =>
                    /\ promises[other].cacheKey # p.cacheKey
                    /\ promises[other].gets # p.gets

\* With default policies the first call computed and wrote r1, and the second
\* call with the same arguments returned the stored r1 without invoking fn
C10_Witness ==
    \E id, next \in Ids :
        /\ IsPrev(id, next)
        /\ DefaultPolicies(promises[id].eng)
        /\ Len(promises[id].fnCalls) = 1
        /\ Len(promises[id].sets) = 1
        /\ promises[id].outcome = Fulfilled("r1")
        /\ promises[next].pc = "done"
        /\ promises[next].fnCalls = <<>>
        /\ promises[next].outcome = Fulfilled("r1")

(***************************************************************************)
(* C11.  The fingerprint is injective on argument lists: two promises have *)
(* the same fingerprint only when their argument lists are equal, and a    *)
(* call is coalesced onto a pending promise only when its argument list is *)
(* the one the promise was created for.                                    *)
(***************************************************************************)
C11_FingerprintInjective ==
    /\ \A i, j \in Ids :
          promises[i].cacheKey = promises[j].cacheKey <=> promises[i].args = promises[j].args
    /\ \A id \in Ids : \A i \in DOMAIN promises[id].callers :
          promises[id].callers[i] = promises[id].args

\* memoFn(1, 2), called while memoFn(1.2) is pending, was handed the promise of
\* memoFn(1.2) and so its result
C11_Collision ==
    \E id \in Ids :
        /\ promises[id].args = <<Num(12)>>
        /\ promises[id].callers = << <<Num(12)>>, <<Num(10), Num(20)>> >>
        /\ promises[id].cacheKey = stringifyKey(<<Num(10), Num(20)>>)
        /\ promises[id].pc = "done"
        /\ promises[id].outcome = Fulfilled("r1")

(***************************************************************************)
(* C12.  Every promise issues its one store get, and every store set, with *)
(* the key made of the namespace elements followed by the call's argument  *)
(* elements, each in its place and of its type; and the store holds only   *)
(* what it held at first and what was set under such keys.                 *)
(***************************************************************************)
C12_KeyIsNamespaceThenArguments ==
    /\ \A id \in Ids :
          LET p == promises[id]
              key == Namespace(p.eng) \o p.args
          IN /\ p.gets = <<key>>
             /\ \A i \in DOMAIN p.sets : p.sets[i].key = key
             /\ Len(key) = Len(Namespace(p.eng)) + Len(p.args)
             /\ \A i \in DOMAIN p.args : key[Len(Namespace(p.eng)) + i] = p.args[i]
    /\ \A k \in DOMAIN store :
          \/ \E e \in Engines : k = Namespace(e) \o StoredArgs
          \/ \E id \in Ids :
                /\ promises[id].sets # <<>>
                /\ promises[id].failed # "set"
                /\ promises[id].pc \in {"settled", "done"}
                /\ k = Namespace(promises[id].eng) \o promises[id].args

\* memoFn(2, 1) read ["sums", 2, 1] and wrote its result under ["sums", 2, 1]
C12_Witness ==
    \E id \in Ids :
        LET key == <<Str(<<"s", "u", "m", "s">>), Num(20), Num(10)>> IN
        /\ promises[id].args = <<Num(20), Num(10)>>
        /\ promises[id].gets = <<key>>
        /\ promises[id].sets = <<[key |-> key, value |-> "r1", expireIn |-> None]>>
        /\ promises[id].pc = "done"
        /\ MapHas(store, key) /\ store[key] = "r1"

(***************************************************************************)
(* C13.  Every store set carries the fresh result and, as its expiration:  *)
(* the configured number when expireIn is a number; the value of           *)
(* expireIn(result, args), called once with the fresh result, when         *)
(* expireIn is a function; nothing when expireIn is absent.                *)
(***************************************************************************)
C13_ExpirationOfSet ==
    \A id \in Ids :
        LET p == promises[id]
            kind == options[p.eng].expireIn
        IN \A i \in DOMAIN p.sets :
              /\ p.sets[i].value = p.result
              /\ kind = "number" => p.sets[i].expireIn = ExpireInNumber
              /\ kind = "function" =>
                    /\ p.expireCalls = <<p.result>>
                    /\ p.sets[i].expireIn = ExpireInFn(p.result, p.args)
              /\ kind = "absent" => p.sets[i].expireIn = None
              /\ kind # "throws"

\* Under an expireIn function r2 was set with the expiration computed for r2
C13_Witness ==
    \E id \in Ids :
        /\ options[promises[id].eng].expireIn = "function"
        /\ promises[id].result = "r2"
        /\ promises[id].pc = "done"
        /\ Len(promises[id].sets) = 1
        /\ promises[id].sets[1].value = "r2"
        /\ promises[id].sets[1].expireIn = Some(2000)

(***************************************************************************)
(* C14.  Each memoized function has its own map: a promise is registered,  *)
(* from its creation until it is done, in the map of the function it was   *)
(* created by and in no other; every call it is returned to was made on    *)
(* that function; and it issues its own store get, and invokes fn unless   *)
(* it returns a cached value, whatever the other function's promises do.   *)
(***************************************************************************)
C14_EnginesIsolated ==
    /\ \A id \in Ids :
          LET p == promises[id] IN
          /\ p.pc # "done" <=> Registered(id)
          /\ \A e \in TwoEngines :
                (MapHas(cache[e], p.cacheKey) /\ cache[e][p.cacheKey] = id) => e = p.eng
          /\ \A i \in DOMAIN p.callees : p.callees[i] = p.eng
          /\ Len(p.gets) = 1
          /\ GotValue(p) => (Len(p.fnCalls) = 1 <=> WantsFn(p))
    /\ \A e \in TwoEngines : \A k \in DOMAIN cache[e] :
          cache[e][k] \in Ids /\ promises[cache[e][k]].eng = e

\* The two functions were called with the same arguments: each ran its own get
\* and fn, and the first's failure left the second's entry in place
C14_Witness ==
    \E i, j \in Ids :
        /\ promises[i].eng = "memoFn" /\ promises[j].eng = "memoFn2"
        /\ promises[i].args = promises[j].args
        /\ promises[i].failed = "fn" /\ promises[i].pc = "done"
        /\ promises[j].pc = "fn" /\ Len(promises[j].fnCalls) = 1
        /\ Registered(j)
        /\ ~MapHas(cache["memoFn"], promises[i].cacheKey)

(***************************************************************************)
(* C15 (as amended).  A caller receives the outcome only when the promise  *)
(* is done and no longer registered: at that moment the map holds, under    *)
(* the fingerprint, nothing or a promise created after this one was done.  *)
(* A call the caller makes in reaction, with the same arguments, is never  *)
(* returned the settled promise: it starts a promise with a store get of   *)
(* its own when the map holds nothing, and joins the later promise, which  *)
(* issued its get after the settlement, otherwise.                         *)
(***************************************************************************)
C15_EntryRemovedBeforeObserved ==
    \A id \in Ids :
        LET p == promises[id] IN
        /\ p.observations # <<>> => (p.pc = "done" /\ ~Registered(id))
        /\ \A i \in DOMAIN p.observations :
              LET o == p.observations[i] IN
              /\ o.seen # Some(id)
              /\ o.seen # None => (o.seen[1] \in Ids /\ o.seen[1] > id)
              /\ o.reaction # "none" =>
                    /\ o.promise \in Ids /\ o.promise > id
                    /\ SameCall(promises[o.promise], p)
                    /\ Len(promises[o.promise].gets) = 1
                    /\ o.reaction = "started" <=> o.seen = None
                    /\ o.reaction = "joined" <=> o.seen = Some(o.promise)

\* A caller received the outcome of the first promise while a second promise
\* of the same call was registered, and its call in reaction joined the second
C15_Witness ==
    \E id \in Ids :
        /\ promises[id].pc = "done"
        /\ promises[id].observations =
              <<[seen |-> Some(id + 1), reaction |-> "joined", promise |-> id + 1]>>
        /\ id + 1 \in Ids
        /\ Len(promises[id + 1].callers) = 2

\* C15 as stated, for a promise shared by two callers or more: when a caller
\* receives the outcome the map holds no entry for the fingerprint, and a call
\* made in reaction starts a promise of its own
C15_Original ==
    \A id \in Ids :
        Len(promises[id].callers) >= 2 =>
            \A i \in DOMAIN promises[id].observations :
                /\ promises[id].observations[i].seen = None
                /\ promises[id].observations[i].reaction \in {"none", "started"}

(***************************************************************************)
(* C16.  The expireIn function is only ever called with a non-nullish      *)
(* result: a promise whose fn resolved to null or undefined makes no call  *)
(* of expireIn.                                                            *)
(***************************************************************************)
C16_ExpireInOnlyForNonNullish ==
    \A id \in Ids :
        LET p == promises[id] IN
        /\ \A i \in DOMAIN p.expireCalls : p.expireCalls[i] \notin Nullish
        /\ (FnResolved(p) /\ p.result \in Nullish) => p.expireCalls = <<>>

\* fn resolved to undefined, expireIn was called with undefined and threw, and
\* the promise rejected instead of returning undefined
C16_CalledWithNullish ==
    \E id \in Ids :
        /\ options[promises[id].eng].expireIn = "throws"
        /\ promises[id].result = "undefined"
        /\ promises[id].expireCalls = <<"undefined">>
        /\ promises[id].failed = "expireIn"
        /\ promises[id].outcome = Rejected("expireInError")
        /\ promises[id].pc = "done"

(***************************************************************************)
(* C17.  In every promise the steps come in one order and once: the store  *)
(* get is issued at creation, exactly once; fn is invoked at most once,    *)
(* and only after the get resolved; the store set is issued at most once,  *)
(* and only after fn resolved, in the same promise; and after a failure of *)
(* any step the promise is settled with nothing repeated or added.         *)
(***************************************************************************)
C17_StepsInOrderOnce ==
    \A id \in Ids :
        LET p == promises[id] IN
        /\ Len(p.gets) = 1 /\ Len(p.fnCalls) <= 1 /\ Len(p.sets) <= 1
        /\ p.pc = "get" => (p.fnCalls = <<>> /\ p.sets = <<>> /\ p.failed = "none")
        /\ p.pc = "fn" => (Len(p.fnCalls) = 1 /\ p.sets = <<>> /\ p.failed = "none")
        /\ p.pc = "set" => (Len(p.fnCalls) = 1 /\ Len(p.sets) = 1 /\ p.failed = "none")
        /\ p.fnCalls # <<>> => GotValue(p)
        /\ p.sets # <<>> => (FnResolved(p) /\ p.result \notin Nullish)
        /\ p.failed # "none" => Settled(p)
        /\ p.failed \in {"get", "shouldRecalculate"} => (p.fnCalls = <<>> /\ p.sets = <<>>)
        /\ p.failed \in {"fn", "expireIn", "shouldCache"} =>
              (Len(p.fnCalls) = 1 /\ p.sets = <<>>)
        /\ p.failed = "set" => (Len(p.fnCalls) = 1 /\ Len(p.sets) = 1)

\* Two promises of one call each failed at a different step, neither retried:
\* the first at fn after its get, the second at the set after its fn
C17_Witness ==
    \E i, j \in Ids :
        /\ IsPrev(i, j)
        /\ promises[i].pc = "done" /\ promises[i].failed = "fn"
        /\ Len(promises[i].gets) = 1 /\ Len(promises[i].fnCalls) = 1
        /\ promises[i].sets = <<>>
        /\ promises[j].pc = "done" /\ promises[j].failed = "set"
        /\ Len(promises[j].gets) = 1 /\ Len(promises[j].fnCalls) = 1
        /\ Len(promises[j].sets) = 1

(***************************************************************************)
(* C18.  Every promise created is eventually done, so every call is        *)
(* eventually settled.  At all times a promise that is not done is         *)
(* registered under its fingerprint (no cleanup of another promise removes *)
(* it), a promise that is done is not (its entry was removed, and it is    *)
(* never registered again), every entry of the map is a promise that is    *)
(* not done, and when no promise is pending the map is empty.              *)
(***************************************************************************)
C18_NoLeak ==
    /\ \A id \in Ids : promises[id].pc # "done" <=> Registered(id)
    /\ \A e \in Engines : \A k \in DOMAIN cache[e] :
          cache[e][k] \in Ids /\ promises[cache[e][k]].pc # "done"
    /\ (\A id \in Ids : promises[id].pc = "done") =>
          \A e \in Engines : cache[e] = EmptyMap

C18_EveryCallSettles ==
    /\ []C18_NoLeak
    /\ \A id \in 1..MaxCalls :
          (id \in Ids) ~> (id \in Ids /\ promises[id].pc = "done")

\* Two promises of the same call ran one after the other, both are done, one
\* fulfilled and one rejected, and the map is empty
C18_Witness ==
    \E i, j \in Ids :
        /\ IsPrev(i, j)
        /\ promises[i].pc = "done" /\ promises[i].outcome.status = "rejected"
        /\ promises[j].pc = "done" /\ promises[j].outcome.status = "fulfilled"
        /\ \A e \in Engines : cache[e] = EmptyMap

(***************************************************************************)
(* C19.  A hook that throws when it is consulted makes the promise reject  *)
(* with the hook's error, for all its callers: nothing catches it.  No     *)
(* store set is issued by that promise; once it is done its entry is gone  *)
(* from the map, and the next call of the same arguments runs a promise of *)
(* its own, starting with its own store get.                               *)
(***************************************************************************)
C19_HookFailureRejects ==
    \A id \in Ids :
        LET p == promises[id]
            opt == options[p.eng]
        IN
        /\ (opt.shouldRecalculate = "throws" /\ p.recalcCalls # <<>>)
              => p.failed = "shouldRecalculate"
        /\ (opt.expireIn = "throws" /\ p.expireCalls # <<>>) => p.failed = "expireIn"
        /\ (opt.shouldCache = "throws" /\ p.cacheCalls # <<>>) => p.failed = "shouldCache"
        /\ p.failed \in {"shouldRecalculate", "expireIn", "shouldCache"} =>
              /\ Settled(p)
              /\ p.outcome = Rejected(ErrorOf(p.failed))
              /\ p.sets = <<>>
              /\ p.failed = "shouldRecalculate" => p.fnCalls = <<>>
              /\ p.pc = "done" => ~Registered(id)
              /\ \A next \in Ids :
                    IsPrev(id, next) =>
                      /\ p.pc = "done"
                      /\ promises[next].gets = <<CompositeKey(p.eng, p.args)>>

\* shouldCache threw for the fresh result r1: the promise rejected, r1 was not
\* set, and a later call with the same arguments started a promise of its own
C19_Witness ==
    \E id, next \in Ids :
        /\ IsPrev(id, next)
        /\ promises[id].result = "r1"
        /\ promises[id].cacheCalls = <<"r1">>
        /\ promises[id].failed = "shouldCache"
        /\ promises[id].outcome = Rejected("shouldCacheError")
        /\ promises[id].sets = <<>>
        /\ Len(promises[next].gets) = 1

(***************************************************************************)
(* C20.  A value read from the store is never deleted: its key keeps a     *)
(* non-nullish value.  When a promise recalculates a non-nullish cached    *)
(* value and settles without a store set (fn rejected, or its result is    *)
(* nullish, or shouldCache returned false), its callers receive the fresh  *)
(* outcome, the store still holds the old value under the key as long as   *)
(* no later promise of the same call exists, and the next promise of the   *)
(* same call, once its get resolved, has read the old value.               *)
(***************************************************************************)
C20_UnwrittenRecalculationKeepsOld ==
    \A id \in Ids :
        LET p == promises[id]
            key == CompositeKey(p.eng, p.args)
        IN
        (GotValue(p) /\ p.cachedResult \notin Nullish) =>
            /\ MapHas(store, key) /\ store[key] \notin Nullish
            /\ (p.fnCalls # <<>> /\ Settled(p) /\ p.sets = <<>>
                   /\ p.failed \in {"none", "fn"}) =>
                  /\ p.recalcCalls = <<p.cachedResult>>
                  /\ p.failed = "fn" => p.outcome = Rejected(ErrorOf("fn"))
                  /\ p.failed = "none" =>
                        /\ p.outcome = Fulfilled(p.result)
                        /\ p.result \in Nullish \/ ~CacheAllows(p)
                  /\ (\A later \in Ids : ~IsPrev(id, later)) => store[key] = p.cachedResult
                  /\ \A next \in Ids :
                        (IsPrev(id, next) /\ GotValue(promises[next]))
                          => promises[next].cachedResult = p.cachedResult

\* The cached r1 was recalculated, shouldCache returned false for the fresh r2,
\* the caller received r2, and the next call read r1 from the store
C20_Witness ==
    \E id, next \in Ids :
        /\ IsPrev(id, next)
        /\ promises[id].cachedResult = "r1"
        /\ promises[id].recalcCalls = <<"r1">>
        /\ promises[id].cacheCalls = <<"r2">>
        /\ promises[id].sets = <<>>
        /\ promises[id].outcome = Fulfilled("r2")
        /\ GotValue(promises[next])
        /\ promises[next].cachedResult = "r1"
        /\ store[CompositeKey(promises[id].eng, promises[id].args)] = "r1"

====
